---- MODULE Spec2Model ----
(***************************************************************************)
(* q2-alignment: column masking (mask), reference-relative slicing         *)
(* (filter_positions) and per-sequence filtering (filter_seqs) of          *)
(* multiple-sequence alignments, modelled from q2_alignment/_filter.py.    *)
(*                                                                         *)
(* Numbers.  Thresholds are rationals k / ThreshDen, held as the integer   *)
(* numerator k.  Character frequencies are the absolute counts that        *)
(* Sequence.frequencies() returns, and every comparison of a quotient of   *)
(* counts with a threshold is done by cross-multiplication, which is the   *)
(* exact value of the float comparison for counts this small.              *)
(***************************************************************************)
EXTENDS Integers, Sequences, FiniteSets, TLC

VARIABLES
    pc,                 \* position of the running call: "idle", a step of mask or filter_seqs, "done"
    op,                 \* the operation last called: "none", "mask", "filter_positions", "filter_seqs"
    alignment,          \* the caller's TabularMSA object: [seqs, ids, index]
    seqs,               \* the caller's sequence stream (the DNAIterator's contents)
    args,               \* the arguments of the call
    frequencies,        \* mask: the local list of per-column frequency dicts
    gap_mask,           \* mask: the local gap mask
    conservation_mask,  \* mask: the local conservation mask
    next_seq,           \* filter_seqs: 1-based position of the loop in the stream
    divisors,           \* filter_seqs: the values of seq_len that frac_gap was divided by
    result,             \* the value returned by the call (NoResult when it raised or still runs)
    returned_input,     \* TRUE when the returned object is the caller's input object itself
    error               \* the exception raised by the call: [kind, ...]

vars == <<pc, op, alignment, seqs, args, frequencies, gap_mask, conservation_mask,
          next_seq, divisors, result, returned_input, error>>

-----------------------------------------------------------------------------
(* Bounds of the model *)

MaxCells == 4       \* cells of an alignment: sequences * columns <= MaxCells
ThreshDen == 2      \* thresholds are k / ThreshDen, k in -1 .. ThreshDen + 1
MaxStream == 2      \* sequences in the stream given to filter_seqs
MaxStreamChars == 2 \* characters in the stream given to filter_seqs, all sequences together

-----------------------------------------------------------------------------
(* The data *)

NonGapChars == {"A", "C", "N"}
gap_chars == {"-", "."}
Chars == NonGapChars \cup gap_chars

SeqIds == <<"s1", "s2", "s3", "s4", "s5", "s6">>
RangeLabels == <<"0", "1", "2", "3", "4", "5">>
MissingId == "s0"

NoResult == [kind |-> "none"]
NoError == [kind |-> "none"]
NoArgs == [op |-> "none"]

Min(a, b) == IF a <= b THEN a ELSE b

\* Rows of n sequences with m columns each; n = 0 gives the alignment TabularMSA([]).
Rows(n, m) == IF n * m <= MaxCells THEN [1..n -> [1..m -> Chars]] ELSE {}

\* A TabularMSA as the caller builds it: metadata ids s1, s2, ... in order and
\* either the default positional index or an index already keyed by id.
DefaultIndex(n) == [i \in 1..n |-> RangeLabels[i]]
IdIndex(ids) == ids
MSA(rows, byId) ==
    LET ids == [i \in 1..Len(rows) |-> SeqIds[i]]
    IN  [seqs |-> rows, ids |-> ids,
         index |-> IF byId THEN IdIndex(ids) ELSE DefaultIndex(Len(rows))]

EmptyMSA == MSA(<<>>, FALSE)

Alignments ==
    { MSA(rows, byId) :
        rows \in UNION { Rows(n, m) : n \in 0..Min(MaxCells, Len(SeqIds)),
                                      m \in 0..MaxCells },
        byId \in BOOLEAN }

\* alignment.shape
ShapeSequence(aln) == Len(aln.seqs)
ShapePosition(aln) == IF Len(aln.seqs) = 0 THEN 0 ELSE Len(aln.seqs[1])

Thresholds == (0 - 1)..(ThreshDen + 1)

SumSeq(s) ==
    LET RECURSIVE Go(_)
        Go(k) == IF k = 0 THEN 0 ELSE s[k] + Go(k - 1)
    IN  Go(Len(s))

SetSum(f, S) ==
    LET RECURSIVE Go(_)
        Go(T) == IF T = {} THEN 0
                 ELSE LET x == CHOOSE y \in T : TRUE IN f[x] + Go(T \ {x})
    IN  Go(S)

SetMax(f, S) == CHOOSE v \in {f[x] : x \in S} : \A x \in S : f[x] <= v

-----------------------------------------------------------------------------
(* mask and its helpers *)

\* [c.frequencies() for c in alignment.iter_positions()]: per column, a dict
\* from each character observed in the column to its count.
_compute_frequencies(aln) ==
    [j \in 1..ShapePosition(aln) |->
        LET observed == {aln.seqs[i][j] : i \in 1..ShapeSequence(aln)}
        IN  [c \in observed |->
                Cardinality({i \in 1..ShapeSequence(aln) : aln.seqs[i][j] = c})]]

\* del frequency_vector[gap] for every gap character present.
DeleteGaps(frequency_vector) ==
    [c \in (DOMAIN frequency_vector) \ gap_chars |-> frequency_vector[c]]

\* Mutant of MostConservedOf: the gap entries are not removed.
MostConservedOf_CountGaps(frequency_vector) ==
    IF DOMAIN frequency_vector = {}
    THEN [num |-> 0, den |-> 1]
    ELSE [num |-> SetMax(frequency_vector, DOMAIN frequency_vector),
          den |-> SetSum(frequency_vector, DOMAIN frequency_vector)]

\* One entry of _most_conserved's result, as the pair [num, den] of
\* np.max(values) / np.sum(values); 0.0 is [num |-> 0, den |-> 1].
MostConservedOf(frequency_vector) ==
    LET fv == DeleteGaps(frequency_vector)
    IN  IF DOMAIN fv = {}
        THEN [num |-> 0, den |-> 1]
        ELSE [num |-> SetMax(fv, DOMAIN fv), den |-> SetSum(fv, DOMAIN fv)]

_most_conserved(freqs) == [j \in 1..Len(freqs) |-> MostConservedOf(freqs[j])]

\* The frequency vectors as _most_conserved leaves them: it deletes the gap
\* entries from the caller's dicts in place.
FrequenciesAfterMostConserved(freqs) == [j \in 1..Len(freqs) |-> DeleteGaps(freqs[j])]

\* c >= min_conservation, with min_conservation = k / ThreshDen
ConservationPasses(c, min_conservation) == c.num * ThreshDen >= min_conservation * c.den

_compute_conservation_mask(freqs, min_conservation) ==
    LET mc == _most_conserved(freqs)
    IN  [j \in 1..Len(freqs) |-> ConservationPasses(mc[j], min_conservation)]

\* np.sum([f.get(gc, 0.0) for gc in sequence_dtype.gap_chars])
GapFrequency(f) == SetSum(f, (DOMAIN f) \cap gap_chars)

\* Mutant of GapPasses: a strict comparison.
GapPasses_Strict(gap_frequency, num_sequences, max_gap_frequency) ==
    gap_frequency * ThreshDen < max_gap_frequency * num_sequences

\* f <= max_gap_frequency, with f = gap_frequency / num_sequences
GapPasses(gap_frequency, num_sequences, max_gap_frequency) ==
    gap_frequency * ThreshDen <= max_gap_frequency * num_sequences

\* Mutant of _compute_gap_mask: the gap count is divided by the number of
\* columns, not by the number of sequences.
_compute_gap_mask_ByColumns(freqs, max_gap_frequency) ==
    [j \in 1..Len(freqs) |->
        GapPasses(GapFrequency(freqs[j]), Len(freqs), max_gap_frequency)]

_compute_gap_mask(freqs, max_gap_frequency) ==
    LET num_sequences == SetSum(freqs[1], DOMAIN freqs[1])
    IN  [j \in 1..Len(freqs) |->
            GapPasses(GapFrequency(freqs[j]), num_sequences, max_gap_frequency)]

\* alignment[:, mask]: a new TabularMSA with the columns whose mask entry is
\* true, the same sequences (metadata) and the same index.
SelectMasked(row, m) ==
    LET RECURSIVE Go(_)
        Go(j) == IF j = 0 THEN <<>>
                 ELSE IF m[j] THEN Append(Go(j - 1), row[j]) ELSE Go(j - 1)
    IN  Go(Len(row))

_apply_mask(aln, m) ==
    [aln EXCEPT !.seqs = [i \in 1..Len(aln.seqs) |-> SelectMasked(aln.seqs[i], m)]]

\* Mutant of OutOfRange: the interval taken as open.
OutOfRange_Open(t) == t <= 0 \/ t >= ThreshDen

\* mask lines 69-74: the range check of one threshold
OutOfRange(t) == t < 0 \/ t > ThreshDen

\* Mutant of IsEmptyAlignment: only the number of sequences is looked at.
IsEmptyAlignment_NoSequences(aln) == Len(aln.seqs) = 0

\* mask line 76: alignment.shape.position == 0
IsEmptyAlignment(aln) == ShapePosition(aln) = 0

\* '{percent:.2%}'.format(percent=count / total): the percentage rounded to
\* two decimals, held in hundredths of a percent (3333 is "33.33%").
FormatPercent(count, total) == (20000 * count + total) \div (2 * total)

CountTrue(m) == Cardinality({j \in 1..Len(m) : m[j]})

\* Mutant of PassedPercent: the share of the positions the mask removes.
PassedPercent_Removed(m, num_input_positions) ==
    FormatPercent(Len(m) - CountTrue(m), num_input_positions)

\* mask lines 93-98: the share of the input positions a mask retains, formatted
PassedPercent(m, num_input_positions) == FormatPercent(CountTrue(m), num_input_positions)

MaskLocalsReset ==
    /\ frequencies' = <<>>
    /\ gap_mask' = <<>>
    /\ conservation_mask' = <<>>

SeqsLocalsReset ==
    /\ next_seq' = 0
    /\ divisors' = {}

CanCall == pc = "idle"

\* mask, lines 66-80: the threshold checks, the emptiness check and the
\* computation of the frequencies.
MaskCall(max_gap_frequency, min_conservation) ==
    /\ CanCall
    /\ op' = "mask"
    /\ args' = [op |-> "mask", max_gap_frequency |-> max_gap_frequency,
                min_conservation |-> min_conservation]
    /\ result' = NoResult
    /\ returned_input' = FALSE
    /\ gap_mask' = <<>>
    /\ conservation_mask' = <<>>
    /\ SeqsLocalsReset
    /\ UNCHANGED <<alignment, seqs>>
    /\ IF OutOfRange(max_gap_frequency)
       THEN /\ error' = [kind |-> "ValueError", what |-> "max_gap_frequency out of range"]
            /\ frequencies' = <<>>
            /\ pc' = "done"
       ELSE IF OutOfRange(min_conservation)
       THEN /\ error' = [kind |-> "ValueError", what |-> "min_conservation out of range"]
            /\ frequencies' = <<>>
            /\ pc' = "done"
       ELSE IF IsEmptyAlignment(alignment)
       THEN /\ error' = [kind |-> "ValueError", what |-> "Input alignment is empty"]
            /\ frequencies' = <<>>
            /\ pc' = "done"
       ELSE /\ error' = NoError
            /\ frequencies' = _compute_frequencies(alignment)
            /\ pc' = "gap_mask"

\* mask, lines 83-84
MaskGapMask ==
    /\ pc = "gap_mask"
    /\ gap_mask' = _compute_gap_mask(frequencies, args.max_gap_frequency)
    /\ pc' = "conservation_mask"
    /\ UNCHANGED <<op, alignment, seqs, args, frequencies, conservation_mask,
                   next_seq, divisors, result, returned_input, error>>

\* mask, lines 85-86
MaskConservationMask ==
    /\ pc = "conservation_mask"
    /\ conservation_mask' = _compute_conservation_mask(frequencies, args.min_conservation)
    /\ frequencies' = FrequenciesAfterMostConserved(frequencies)
    /\ pc' = "apply"
    /\ UNCHANGED <<op, alignment, seqs, args, gap_mask,
                   next_seq, divisors, result, returned_input, error>>

\* mask, lines 87-105
MaskApply ==
    /\ pc = "apply"
    /\ LET combined_mask == [j \in 1..Len(gap_mask) |-> gap_mask[j] /\ conservation_mask[j]]
           res == _apply_mask(alignment, combined_mask)
           num_input_positions == ShapePosition(alignment)
       IN  IF ShapePosition(res) = 0
           THEN /\ error' = [kind |-> "ValueError",
                             what |-> "No alignment positions remain after filtering",
                             str_passed_gap |->
                                 PassedPercent(gap_mask, num_input_positions),
                             str_passed_conservation |->
                                 PassedPercent(conservation_mask, num_input_positions)]
                /\ result' = NoResult
           ELSE /\ error' = NoError
                /\ result' = res
    /\ pc' = "done"
    /\ UNCHANGED <<op, alignment, seqs, args, frequencies, gap_mask, conservation_mask,
                   next_seq, divisors, returned_input>>

\* _most_conserved, lines 17-19: the check of gap_mode
UnknownGapMode(gap_mode) == gap_mode # "ignore"

GapModes == {"ignore", "not-real"}

\* _most_conserved, lines 16-30, called on its own (as the tests do) with the
\* list held in frequencies: the list is the caller's object, args keeps its
\* value at the call.
MostConservedCall(gap_mode) ==
    /\ CanCall
    /\ op' = "_most_conserved"
    /\ args' = [op |-> "_most_conserved", frequencies |-> frequencies, gap_mode |-> gap_mode]
    /\ IF UnknownGapMode(gap_mode)
       THEN /\ error' = [kind |-> "ValueError", what |-> "Unknown gap_mode"]
            /\ result' = NoResult
            /\ UNCHANGED frequencies
       ELSE /\ error' = NoError
            /\ result' = [kind |-> "list", values |-> _most_conserved(frequencies)]
            /\ frequencies' = FrequenciesAfterMostConserved(frequencies)
    /\ pc' = "done"
    /\ UNCHANGED <<alignment, seqs, gap_mask, conservation_mask, next_seq, divisors,
                   returned_input>>

\* mask, lines 66-105, as a function of its arguments: [result, error].
mask(aln, max_gap_frequency, min_conservation) ==
    IF OutOfRange(max_gap_frequency)
    THEN [result |-> NoResult,
          error |-> [kind |-> "ValueError", what |-> "max_gap_frequency out of range"]]
    ELSE IF OutOfRange(min_conservation)
    THEN [result |-> NoResult,
          error |-> [kind |-> "ValueError", what |-> "min_conservation out of range"]]
    ELSE IF IsEmptyAlignment(aln)
    THEN [result |-> NoResult,
          error |-> [kind |-> "ValueError", what |-> "Input alignment is empty"]]
    ELSE
    LET freqs == _compute_frequencies(aln)
        gm == _compute_gap_mask(freqs, max_gap_frequency)
        cm == _compute_conservation_mask(freqs, min_conservation)
        combined_mask == [j \in 1..Len(gm) |-> gm[j] /\ cm[j]]
        res == _apply_mask(aln, combined_mask)
    IN  IF ShapePosition(res) = 0
        THEN [result |-> NoResult,
              error |-> [kind |-> "ValueError",
                         what |-> "No alignment positions remain after filtering",
                         str_passed_gap |-> PassedPercent(gm, ShapePosition(aln)),
                         str_passed_conservation |-> PassedPercent(cm, ShapePosition(aln))]]
        ELSE [result |-> res, error |-> NoError]

-----------------------------------------------------------------------------
(* filter_positions and its helpers *)

\* alignment.reassign_index(minter='id'): the index becomes the metadata ids,
\* in place, on the caller's object.
ReassignIndex(aln) == [aln EXCEPT !.index = IdIndex(aln.ids)]

IndexHas(aln, label) == \E i \in 1..Len(aln.index) : aln.index[i] = label

\* alignment.loc[reference_id], for a label the index holds once
Loc(aln, label) == aln.seqs[CHOOSE i \in 1..Len(aln.index) : aln.index[i] = label]

\* ~sequence.gaps(): per column, TRUE where the sequence has no gap character
NonGaps(sequence) == [j \in 1..Len(sequence) |-> sequence[j] \notin gap_chars]

\* reference_array, lines 128-129: -1 in the reference's gap columns, and the
\* 0-based ungapped index 0, 1, 2, ... in its other columns.
ReferenceArray(non_gaps) ==
    [j \in 1..Len(non_gaps) |->
        IF non_gaps[j]
        THEN Cardinality({k \in 1..j : non_gaps[k]}) - 1
        ELSE 0 - 1]

\* np.argwhere(reference_array == value): the columns holding value.  Columns
\* are numbered from 1 here, from 0 in the code.
ArgWhere(reference_array, value) ==
    {j \in 1..Len(reference_array) : reference_array[j] = value}

First(S) == CHOOSE j \in S : \A k \in S : j <= k

\* Mutant of SliceFrom: the slice starts one column late.
SliceFrom_Late(aln, aln_start) ==
    [aln EXCEPT !.seqs = [i \in 1..Len(aln.seqs) |->
                            SubSeq(aln.seqs[i], aln_start + 1, Len(aln.seqs[i]))]]

\* alignment[:, aln_start:]: a new TabularMSA with the columns from aln_start on
SliceFrom(aln, aln_start) ==
    [aln EXCEPT !.seqs = [i \in 1..Len(aln.seqs) |->
                            SubSeq(aln.seqs[i], aln_start, Len(aln.seqs[i]))]]

\* line 116: the check of end against the converted (0-based) start
EndBeforeStart(end, start0) == end < start0

\* filter_positions, lines 108-136.  [aln, result, returned_input, error]:
\* the caller's object after the call, the returned value, whether the
\* returned value is the caller's object, and the exception raised.
filter_positions(aln, reference_id, start1, end) ==
    LET start0 == start1 - 1
        reindexed == ReassignIndex(aln)
        Raise(a, e) == [aln |-> a, result |-> NoResult, returned_input |-> FALSE, error |-> e]
    IN  IF EndBeforeStart(end, start0)
        THEN Raise(aln, [kind |-> "ValueError", what |-> "end must be greater than start"])
        ELSE IF ~IndexHas(reindexed, reference_id)
        THEN Raise(reindexed, [kind |-> "KeyError", what |-> "not found in alignment"])
        ELSE
        LET non_gaps == NonGaps(Loc(reindexed, reference_id))
            count_non_gaps == CountTrue(non_gaps)
            reference_array == ReferenceArray(non_gaps)
        IN  IF end > count_non_gaps
            THEN Raise(reindexed, [kind |-> "ValueError",
                                   what |-> "end position is larger than the length of the reference sequence"])
            ELSE IF ArgWhere(reference_array, start0) = {}
            THEN Raise(reindexed, [kind |-> "IndexError", what |-> "index 0 is out of bounds"])
            ELSE
            LET aln_start == First(ArgWhere(reference_array, start0))
            IN  IF end = count_non_gaps
                THEN [aln |-> reindexed, result |-> SliceFrom(reindexed, aln_start),
                      returned_input |-> FALSE, error |-> NoError]
                ELSE IF ArgWhere(reference_array, end) = {}
                THEN Raise(reindexed, [kind |-> "IndexError", what |-> "index 0 is out of bounds"])
                ELSE [aln |-> reindexed, result |-> reindexed,
                      returned_input |-> TRUE, error |-> NoError]

FilterPositions(reference_id, start, end) ==
    /\ CanCall
    /\ op' = "filter_positions"
    /\ args' = [op |-> "filter_positions", reference_id |-> reference_id,
                start |-> start, end |-> end]
    /\ LET r == filter_positions(alignment, reference_id, start, end)
       IN  /\ alignment' = r.aln
           /\ result' = r.result
           /\ returned_input' = r.returned_input
           /\ error' = r.error
    /\ pc' = "done"
    /\ MaskLocalsReset
    /\ SeqsLocalsReset
    /\ UNCHANGED seqs

-----------------------------------------------------------------------------
(* filter_seqs and its helpers *)

StreamChars == {"A", "N", "-"}

None == 0 - 1       \* max_length=None

Gaps(seq) == {j \in 1..Len(seq) : seq[j] \in gap_chars}

\* seq.degap()
Degap(seq) ==
    LET RECURSIVE Go(_)
        Go(j) == IF j = 0 THEN <<>>
                 ELSE IF seq[j] \in gap_chars THEN Go(j - 1) ELSE Append(Go(j - 1), seq[j])
    IN  Go(Len(seq))

\* A quotient of two counts, [num, den].  With den = 0 the numerator is 0 as
\* well and numpy gives nan (and a RuntimeWarning), which compares false.
Frac(num, den) == [num |-> num, den |-> den]
IsNaN(f) == f.den = 0

\* Mutant of FracExceeds: a sequence exactly at the threshold is skipped too.
FracExceeds_OrEqual(f, threshold) == ~IsNaN(f) /\ f.num * ThreshDen >= threshold * f.den

\* frac > threshold, with threshold = k / ThreshDen
FracExceeds(f, threshold) == ~IsNaN(f) /\ f.num * ThreshDen > threshold * f.den

\* degapped_seq.frequencies(chars={'N'}, relative=True)['N']
FracN(degapped_seq) ==
    Frac(Cardinality({j \in 1..Len(degapped_seq) : degapped_seq[j] = "N"}), Len(degapped_seq))

\* lines 147-148
LengthSkips(seq_len, min_length, max_length) ==
    seq_len < min_length \/ (max_length # None /\ seq_len > max_length)

\* result[seq.metadata['id']] = seq on a pd.Series: the value of an existing
\* key is replaced, a new key is appended.
SeriesSet(items, id, seq) ==
    IF \E k \in 1..Len(items) : items[k].id = id
    THEN [k \in 1..Len(items) |-> IF items[k].id = id THEN [id |-> id, seq |-> seq]
                                                      ELSE items[k]]
    ELSE Append(items, [id |-> id, seq |-> seq])

\* The streams: up to MaxStream sequences with ids s1, s2, ... and at most
\* MaxStreamChars characters in all.
TotalLen(rows) == SumSeq([i \in 1..Len(rows) |-> Len(rows[i])])

RECURSIVE CharRows(_)
CharRows(n) ==
    IF n = 0 THEN {<<>>}
    ELSE UNION { { Append(rest, s) :
                     s \in UNION { [1..len -> StreamChars] :
                                     len \in 0..(MaxStreamChars - TotalLen(rest)) } } :
                 rest \in CharRows(n - 1) }

Streams ==
    { [i \in 1..Len(rows) |-> [id |-> SeqIds[i], chars |-> rows[i]]] :
        rows \in UNION { CharRows(n) : n \in 0..Min(MaxStream, Len(SeqIds)) } }

\* filter_seqs, line 144 and the start of the loop
FilterSeqsCall(max_gap_frequency, max_n_frequency, min_length, max_length) ==
    /\ CanCall
    /\ op' = "filter_seqs"
    /\ args' = [op |-> "filter_seqs", max_gap_frequency |-> max_gap_frequency,
                max_n_frequency |-> max_n_frequency,
                min_length |-> min_length, max_length |-> max_length]
    /\ result' = [kind |-> "series", items |-> <<>>]
    /\ returned_input' = FALSE
    /\ error' = NoError
    /\ next_seq' = 1
    /\ divisors' = {}
    /\ pc' = "loop"
    /\ MaskLocalsReset
    /\ UNCHANGED <<alignment, seqs>>

\* filter_seqs, lines 145-161: one iteration of the loop
FilterSeqsStep ==
    /\ pc = "loop"
    /\ next_seq <= Len(seqs)
    /\ LET seq == seqs[next_seq]
           seq_len == Len(seq.chars)
       IN  IF LengthSkips(seq_len, args.min_length, args.max_length)
           THEN UNCHANGED <<result, divisors>>
           ELSE
           LET gap_count == Cardinality(Gaps(seq.chars))
               frac_gap == Frac(gap_count, seq_len)
           IN  /\ divisors' = divisors \cup {seq_len}
               /\ IF FracExceeds(frac_gap, args.max_gap_frequency)
                  THEN UNCHANGED result
                  ELSE IF FracExceeds(FracN(Degap(seq.chars)), args.max_n_frequency)
                  THEN UNCHANGED result
                  ELSE result' = [result EXCEPT !.items = SeriesSet(@, seq.id, seq)]
    /\ next_seq' = next_seq + 1
    /\ UNCHANGED <<pc, op, alignment, seqs, args, frequencies, gap_mask, conservation_mask,
                   returned_input, error>>

\* filter_seqs, line 162: the stream is exhausted
FilterSeqsReturn ==
    /\ pc = "loop"
    /\ next_seq > Len(seqs)
    /\ pc' = "done"
    /\ UNCHANGED <<op, alignment, seqs, args, frequencies, gap_mask, conservation_mask,
                   next_seq, divisors, result, returned_input, error>>

-----------------------------------------------------------------------------

InitCommon ==
    /\ pc = "idle"
    /\ op = "none"
    /\ args = NoArgs
    /\ frequencies = <<>>
    /\ gap_mask = <<>>
    /\ conservation_mask = <<>>
    /\ next_seq = 0
    /\ divisors = {}
    /\ result = NoResult
    /\ returned_input = FALSE
    /\ error = NoError

InitMask ==
    /\ InitCommon
    /\ alignment \in {a \in Alignments : a.index = DefaultIndex(Len(a.seqs))}
    /\ seqs = <<>>

NextMask ==
    \/ \E g \in Thresholds, c \in Thresholds : MaskCall(g, c)
    \/ MaskGapMask
    \/ MaskConservationMask
    \/ MaskApply

SpecMask == InitMask /\ [][NextMask]_vars

InitAlignment ==
    /\ InitCommon
    /\ alignment \in Alignments
    /\ seqs = <<>>

NextPositions ==
    \E reference_id \in {alignment.ids[i] : i \in 1..Len(alignment.ids)} \cup {MissingId},
       start \in 1..(ShapePosition(alignment) + 1),
       end \in 1..(ShapePosition(alignment) + 1) :
        FilterPositions(reference_id, start, end)

SpecPositions == InitAlignment /\ [][NextPositions]_vars

InitSeqs ==
    /\ InitCommon
    /\ alignment = EmptyMSA
    /\ seqs \in Streams

NextSeqs ==
    \/ \E g \in 0..ThreshDen, n \in 0..ThreshDen,
          min_length \in 0..MaxStreamChars,
          max_length \in {None} \cup 1..MaxStreamChars :
            FilterSeqsCall(g, n, min_length, max_length)
    \/ FilterSeqsStep
    \/ FilterSeqsReturn

SpecSeqs == InitSeqs /\ [][NextSeqs]_vars

\* The lists of frequency vectors given to _most_conserved: those of the
\* alignments, the empty list included.
FrequencyLists == { _compute_frequencies(a) : a \in Alignments }

InitMostConserved ==
    /\ pc = "idle"
    /\ op = "none"
    /\ args = NoArgs
    /\ alignment = EmptyMSA
    /\ seqs = <<>>
    /\ frequencies \in FrequencyLists
    /\ gap_mask = <<>>
    /\ conservation_mask = <<>>
    /\ next_seq = 0
    /\ divisors = {}
    /\ result = NoResult
    /\ returned_input = FALSE
    /\ error = NoError

NextMostConserved == \E gap_mode \in GapModes : MostConservedCall(gap_mode)

SpecMostConserved == InitMostConserved /\ [][NextMostConserved]_vars

Init == InitAlignment \/ InitSeqs

Next == NextMask \/ NextPositions \/ NextSeqs

Spec == Init /\ [][Next]_vars

-----------------------------------------------------------------------------
(* The alignment read directly, column by column *)

NumSeqs(aln) == Len(aln.seqs)
NumCols(aln) == IF Len(aln.seqs) = 0 THEN 0 ELSE Len(aln.seqs[1])

ColCount(aln, j, S) == Cardinality({i \in 1..NumSeqs(aln) : aln.seqs[i][j] \in S})

\* gap characters in the column / number of sequences <= g / ThreshDen
ColGapOk(aln, j, g) == ColCount(aln, j, gap_chars) * ThreshDen <= g * NumSeqs(aln)

\* count of the most common non-gap character / count of all non-gap
\* characters (0 for an all-gap column) >= c / ThreshDen
ColConservedOk(aln, j, c) ==
    LET nongap == ColCount(aln, j, NonGapChars)
    IN  IF nongap = 0
        THEN 0 >= c
        ELSE \E ch \in NonGapChars : ColCount(aln, j, {ch}) * ThreshDen >= c * nongap

GapCols(aln, g) == {j \in 1..NumCols(aln) : ColGapOk(aln, j, g)}
ConservedCols(aln, c) == {j \in 1..NumCols(aln) : ColConservedOk(aln, j, c)}
QualifyingCols(aln, g, c) == GapCols(aln, g) \cap ConservedCols(aln, c)

\* the k-th smallest element of a set of numbers
Kth(S, k) == CHOOSE x \in S : Cardinality({y \in S : y < x}) = k - 1

\* rows restricted to the columns of S, in left-to-right order
RestrictedTo(aln, S) ==
    [i \in 1..NumSeqs(aln) |-> [k \in 1..Cardinality(S) |-> aln.seqs[i][Kth(S, k)]]]

InUnitInterval(k) == 0 <= k /\ k <= ThreshDen

MaskDone == pc = "done" /\ op = "mask"
MaskArgsValid == InUnitInterval(args.max_gap_frequency) /\ InUnitInterval(args.min_conservation)
MaskQualifying == QualifyingCols(alignment, args.max_gap_frequency, args.min_conservation)

-----------------------------------------------------------------------------
(* Claims about mask *)

IsPercentOf(p, count, total) ==
    LET d == p * total - 10000 * count
    IN  2 * (IF d < 0 THEN 0 - d ELSE d) <= total

C5_NoColumnsLeftFails ==
    (MaskDone /\ MaskArgsValid /\ NumCols(alignment) > 0)
        => /\ (MaskQualifying = {}) =>
                /\ error.kind = "ValueError"
                /\ error.what = "No alignment positions remain after filtering"
                /\ result = NoResult
                /\ IsPercentOf(error.str_passed_gap,
                               Cardinality(GapCols(alignment, args.max_gap_frequency)),
                               NumCols(alignment))
                /\ IsPercentOf(error.str_passed_conservation,
                               Cardinality(ConservedCols(alignment, args.min_conservation)),
                               NumCols(alignment))
           /\ (error = NoError) => NumCols(result) > 0

C5_Witness ==
    /\ MaskDone
    /\ error.kind = "ValueError"
    /\ error.what = "No alignment positions remain after filtering"
    /\ error.str_passed_gap = 5000
    /\ error.str_passed_conservation = 5000

\* C6: mask fails with the out-of-range error exactly when one of the two
\* thresholds lies outside [0.0, 1.0], whatever the alignment (an empty one
\* included); 0.0 and 1.0 are accepted.
RangeError ==
    /\ error.kind = "ValueError"
    /\ error.what \in {"max_gap_frequency out of range", "min_conservation out of range"}

C6_ThresholdRangeChecked ==
    MaskDone => (RangeError <=> ~MaskArgsValid)

C6_Witness ==
    /\ MaskDone
    /\ NumCols(alignment) = 0
    /\ args.max_gap_frequency = ThreshDen
    /\ args.min_conservation = ThreshDen + 1
    /\ RangeError

\* C7: mask fails for every alignment with zero sequences or zero columns,
\* whatever the thresholds, and never reaches the computation of the
\* frequencies or of a mask for it.
C7_EmptyAlignmentFails ==
    (op = "mask" /\ (NumSeqs(alignment) = 0 \/ \A i \in 1..NumSeqs(alignment) : Len(alignment.seqs[i]) = 0))
        => /\ pc = "done"
           /\ error.kind = "ValueError"
           /\ result = NoResult
           /\ frequencies = <<>> /\ gap_mask = <<>> /\ conservation_mask = <<>>

C7_Witness ==
    /\ MaskDone
    /\ NumSeqs(alignment) = 2
    /\ NumCols(alignment) = 0
    /\ MaskArgsValid
    /\ error.what = "Input alignment is empty"

\* C11: mask is idempotent: when mask(A, g, c) succeeds with result B,
\* mask(B, g, c) succeeds too and returns an alignment equal to B.
C11_MaskIdempotent ==
    (MaskDone /\ error = NoError)
        => mask(result, args.max_gap_frequency, args.min_conservation)
               = [result |-> result, error |-> NoError]

C11_Witness ==
    /\ MaskDone
    /\ error = NoError
    /\ NumSeqs(alignment) = 2
    /\ NumCols(alignment) = 2
    /\ NumCols(result) = 1
    /\ \E i \in 1..2 : result.seqs[i][1] \in gap_chars

\* C12: _most_conserved gives one value per frequency vector, in order: 0.0
\* for a vector without a non-gap character, otherwise the largest non-gap
\* frequency over the sum of the non-gap frequencies, which lies in [0, 1] and
\* is 1.0 when a single non-gap character is present; N is a non-gap character
\* like A and C; the empty list gives the empty list; a gap_mode other than
\* 'ignore' fails with an invalid-argument error.
MostConservedDone == pc = "done" /\ op = "_most_conserved"

FreqOf(v, ch) == IF ch \in DOMAIN v THEN v[ch] ELSE 0

IsMostConservedValue(value, v) ==
    LET present == (DOMAIN v) \cap {"A", "C", "N"}
        total == FreqOf(v, "A") + FreqOf(v, "C") + FreqOf(v, "N")
    IN  IF present = {}
        THEN value.num = 0 /\ value.den # 0
        ELSE /\ value.den > 0
             /\ 0 <= value.num /\ value.num <= value.den
             /\ \E ch \in present :
                    /\ \A other \in present : v[other] <= v[ch]
                    /\ value.num * total = v[ch] * value.den
             /\ Cardinality(present) = 1 => value.num = value.den

C12_MostConservedValues ==
    MostConservedDone =>
        IF args.gap_mode = "ignore"
        THEN /\ error = NoError
             /\ Len(result.values) = Len(args.frequencies)
             /\ \A j \in 1..Len(args.frequencies) :
                    IsMostConservedValue(result.values[j], args.frequencies[j])
        ELSE /\ error.kind = "ValueError"
             /\ error.what = "Unknown gap_mode"
             /\ result = NoResult

C12_Witness ==
    /\ MostConservedDone
    /\ args.gap_mode = "ignore"
    /\ Len(args.frequencies) = 2
    /\ DOMAIN args.frequencies[1] = {"N", "-"}
    /\ result.values[1].num = result.values[1].den
    /\ DOMAIN args.frequencies[2] \subseteq gap_chars
    /\ result.values[2].num = 0

\* C13: building the conservation mask leaves every frequency vector as
\* _compute_frequencies made it, so the gap mask computed from the vectors
\* after the conservation mask is the one computed before it.
C13_FrequenciesNotMutated ==
    (op = "mask" /\ pc = "apply")
        => /\ frequencies = _compute_frequencies(alignment)
           /\ _compute_gap_mask(frequencies, args.max_gap_frequency) = gap_mask

-----------------------------------------------------------------------------
(* Claims about filter_positions *)

PositionsDone == pc = "done" /\ op = "filter_positions"

HasId(aln, id) == \E i \in 1..Len(aln.ids) : aln.ids[i] = id
RowOf(aln, id) == aln.seqs[CHOOSE i \in 1..Len(aln.ids) : aln.ids[i] = id]
UngappedLen(row) == Cardinality({j \in 1..Len(row) : row[j] \in NonGapChars})

\* the column holding the p-th (1-based) non-gap character of the row
ColOfUngapped(row, p) ==
    CHOOSE j \in 1..Len(row) :
        /\ row[j] \in NonGapChars
        /\ Cardinality({k \in 1..j : row[k] \in NonGapChars}) = p

ColumnRange(aln, a, b) == [i \in 1..NumSeqs(aln) |-> SubSeq(aln.seqs[i], a, b)]

PositionsRef == RowOf(alignment, args.reference_id)

\* C2: with a valid reference and 1 <= start <= end < ungapped length of the
\* reference, the result is the input restricted to the columns from the one
\* holding the reference's ungapped position start through the one whose
\* 0-based ungapped index is end, all sequences included.
C2_SliceThroughEndColumn ==
    (/\ PositionsDone
     /\ HasId(alignment, args.reference_id)
     /\ 1 <= args.start /\ args.start <= args.end
     /\ args.end < UngappedLen(PositionsRef))
        => /\ error = NoError
           /\ result.seqs = ColumnRange(alignment,
                                        ColOfUngapped(PositionsRef, args.start),
                                        ColOfUngapped(PositionsRef, args.end + 1))
           /\ result.ids = alignment.ids

\* C3: with a valid reference, 1 <= start <= end and end equal to the
\* reference's ungapped length, the result is the input restricted to the
\* columns from the one holding the reference's ungapped position start
\* through the last column, every sequence kept in order.
C3_SliceToEndOfAlignment ==
    (/\ PositionsDone
     /\ HasId(alignment, args.reference_id)
     /\ 1 <= args.start /\ args.start <= args.end
     /\ args.end = UngappedLen(PositionsRef))
        => /\ error = NoError
           /\ result.seqs = ColumnRange(alignment,
                                        ColOfUngapped(PositionsRef, args.start),
                                        NumCols(alignment))
           /\ result.ids = alignment.ids

C3_Witness ==
    /\ PositionsDone
    /\ error = NoError
    /\ NumSeqs(alignment) = 2
    /\ args.reference_id = "s2"
    /\ args.end = UngappedLen(PositionsRef)
    /\ alignment.seqs[2][1] \in gap_chars
    /\ NumCols(alignment) = 2
    /\ NumCols(result) = 1

\* C4: every call with end less than the caller's 1-based start fails with the
\* invalid-argument error of the start/end check, and in no other way.
C4_EndBeforeStartRejected ==
    (PositionsDone /\ args.end < args.start)
        => /\ error.kind = "ValueError"
           /\ error.what = "end must be greater than start"

-----------------------------------------------------------------------------
(* Claims about filter_seqs *)

SeqsDone == pc = "done" /\ op = "filter_seqs"

CountIn(chars, S) == Cardinality({j \in 1..Len(chars) : chars[j] \in S})

\* the four conditions for retaining a sequence
Retained(seq) ==
    /\ Len(seq.chars) >= args.min_length
    /\ (args.max_length # None => Len(seq.chars) <= args.max_length)
    /\ CountIn(seq.chars, gap_chars) * ThreshDen <= args.max_gap_frequency * Len(seq.chars)
    /\ CountIn(seq.chars, {"N"}) * ThreshDen
           <= args.max_n_frequency * CountIn(seq.chars, NonGapChars)

DistinctIds(stream) ==
    \A a, b \in 1..Len(stream) : stream[a].id = stream[b].id => a = b

\* C8: for a stream of sequences with distinct identifiers, each with at least
\* one non-gap character, filter_seqs returns exactly the sequences meeting
\* the length, gap-frequency and N-frequency conditions, keyed by identifier,
\* in the order of the stream.
C8_FilterSeqsRetainsExactly ==
    (/\ SeqsDone
     /\ DistinctIds(seqs)
     /\ \A k \in 1..Len(seqs) : CountIn(seqs[k].chars, NonGapChars) >= 1)
        => /\ error = NoError
           /\ [k \in 1..Len(result.items) |-> result.items[k].seq] = SelectSeq(seqs, Retained)
           /\ \A k \in 1..Len(result.items) : result.items[k].id = result.items[k].seq.id

C8_Witness ==
    /\ SeqsDone
    /\ Len(seqs) = 2
    /\ \A k \in 1..Len(seqs) : CountIn(seqs[k].chars, NonGapChars) >= 1
    /\ Len(result.items) = 1
    /\ result.items[1].id = "s2"

\* C9: filter_seqs never divides by the length of a zero-length sequence.
C9_NoDivisionByZeroLength == 0 \notin divisors

-----------------------------------------------------------------------------
(* Claims about all three operations *)

\* C10: no call changes the caller's alignment or sequences (characters,
\* order of the sequences, index and identifiers), and a successful call
\* never returns the caller's own object.
C10_InputsNeverMutated ==
    [][alignment' = alignment /\ seqs' = seqs /\ ~returned_input']_vars

====
